---------------------------- MODULE Spec2Model ----------------------------
(***************************************************************************)
(* A model of pycoingecko's asynchronous client (pycoingecko/asyncapi.py): *)
(*   - DecodingStreamReader: the incremental decoder of a byte stream;     *)
(*   - CoinGeckoAPI.__request: the request executor;                       *)
(*   - CoinGeckoAPI.__api_url_params and the endpoint methods that build   *)
(*     the URL.                                                            *)
(* Text is a sequence of code points, a byte string a sequence of numbers  *)
(* in 0..255.  A Python value is a tagged tuple: <<"int", n>>,             *)
(* <<"str", cps>>, <<"list", vs>>, <<"dict", pairs>>.                      *)
(***************************************************************************)
EXTENDS Integers, Sequences, FiniteSets, TLC

(***************************************************************************)
(* The state: of a DecodingStreamReader, of the endpoint method that built *)
(* the last URL, and of the calls of the request executor.                 *)
(***************************************************************************)
VARIABLES
    fed,        \* the bytes the stream has delivered so far, in order
    decoded,    \* the concatenation of the results of the byte reads so far
    buffer,     \* decoder.buffer: the bytes of a character not yet complete
    lastChunk,  \* what the last stream.read returned
    lastRead,   \* what the last DecodingStreamReader.read returned
    readFailed  \* a read raised UnicodeDecodeError

decVars == <<fed, decoded, buffer, lastChunk, lastRead, readFailed>>

VARIABLES
    endpoint,   \* the endpoint method called last
    args,       \* its positional arguments, as the caller gave them
    extra,      \* its **kwargs, as the caller gave them
    built,      \* <<api_url, params>>: what it gave to __api_url_params
    url         \* the URL it gave to __request

urlVars == <<endpoint, args, extra, built, url>>

VARIABLES
    clients,    \* the calls the application makes
    server,     \* [statuses, bodies]: what the server may answer
    pc,         \* per call: idle, get, sleep, read41, read46, done
    method,     \* per call: the endpoint method called
    session,    \* per call: none, open, closed (the RetryClient of the call)
    attempt,    \* per call: the RetryClient's current_attempt
    inflight,   \* per call: HTTP requests sent and not yet answered
    sent,       \* per call: HTTP requests the server has seen
    log,        \* per call: the statuses the server answered with, in order
    response,   \* per call: the local `response`: Unbound or [status, body, consumed]
    caught,     \* per call: the exception `except Exception as e` is handling
    fault,      \* per call: none, network (the GET failed), cancel
    result      \* per call: how the call ended: [kind, exc, value]

reqVars == <<clients, server, pc, method, session, attempt, inflight, sent,
             log, response, caught, fault, result>>

vars == <<decVars, urlVars, reqVars>>

(***************************************************************************)
(* Sequences.                                                              *)
(***************************************************************************)
SeqsUpTo(S, n) == UNION {[1..k -> S] : k \in 0..n}

Drop(s, k) == SubSeq(s, k + 1, Len(s))

(***************************************************************************)
(* The UTF-8 codec behind codecs.getincrementaldecoder('utf-8'), errors =  *)
(* 'strict'.                                                               *)
(***************************************************************************)
IsCont(b) == b >= 128 /\ b <= 191

\* How many continuation bytes follow lead byte b; -1: b cannot start a character.
Utf8Need(b) ==
    IF b < 128 THEN 0
    ELSE IF b >= 194 /\ b <= 223 THEN 1
    ELSE IF b >= 224 /\ b <= 239 THEN 2
    ELSE IF b >= 240 /\ b <= 244 THEN 3
    ELSE -1

\* The second byte's range depends on the lead byte (no overlong forms, no
\* surrogates, nothing above U+10FFFF).  A surrogate is rejected only once its
\* three bytes are there.
Utf8SecondOk(lead, b, complete) ==
    /\ IsCont(b)
    /\ (lead = 224 => b >= 160)
    /\ (lead = 237 /\ complete => b <= 159)
    /\ (lead = 240 => b >= 144)
    /\ (lead = 244 => b <= 143)

Utf8Point(data, i, need) ==
    CASE need = 0 -> data[i]
      [] need = 1 -> (data[i] - 192) * 64 + (data[i + 1] - 128)
      [] need = 2 -> (data[i] - 224) * 4096 + (data[i + 1] - 128) * 64
                        + (data[i + 2] - 128)
      [] need = 3 -> (data[i] - 240) * 262144 + (data[i + 1] - 128) * 4096
                        + (data[i + 2] - 128) * 64 + (data[i + 3] - 128)

\* The continuation bytes that are present (up to the end of data) are all valid.
Utf8TailOk(data, i, need) ==
    \A k \in 1..need :
        (i + k <= Len(data)) =>
            IF k = 1 THEN Utf8SecondOk(data[i], data[i + 1], i + need <= Len(data))
                     ELSE IsCont(data[i + k])

\* utf_8_decode(data, 'strict', final) from position i on: the text decoded, the
\* number of bytes consumed, and ok = FALSE for UnicodeDecodeError.
RECURSIVE Utf8From(_, _, _, _)
Utf8From(data, i, final, acc) ==
    IF i > Len(data) THEN [ok |-> TRUE, text |-> acc, consumed |-> Len(data)]
    ELSE LET need == Utf8Need(data[i]) IN
         IF need = -1 \/ ~Utf8TailOk(data, i, need)
         THEN [ok |-> FALSE, text |-> acc, consumed |-> i - 1]
         ELSE IF i + need > Len(data)
         THEN IF final THEN [ok |-> FALSE, text |-> acc, consumed |-> i - 1]
                       ELSE [ok |-> TRUE, text |-> acc, consumed |-> i - 1]
         ELSE Utf8From(data, i + need + 1, final,
                       Append(acc, Utf8Point(data, i, need)))

utf_8_decode(data, final) == Utf8From(data, 1, final, <<>>)

\* IncrementalDecoder.decode(input) with final = False: the bytes kept from the
\* earlier calls are decoded with the new ones, and the incomplete tail is kept.
DecoderDecodeLossy(kept, input) ==
    LET r == utf_8_decode(input, FALSE)
    IN  [ok |-> r.ok, text |-> r.text, buffer |-> <<>>]

DecoderDecode(kept, input) ==
    LET data == kept \o input
        r    == utf_8_decode(data, FALSE)
    IN  [ok |-> r.ok, text |-> r.text,
         buffer |-> IF r.ok THEN Drop(data, r.consumed) ELSE kept]

(***************************************************************************)
(* json.loads on a text, for the JSON grammar without escapes, fractions,  *)
(* signs and the literals true, false and null: objects, arrays, strings   *)
(* and non-negative integers, with spaces between the tokens.  The result  *)
(* is [ok, val, next]: ok = FALSE stands for json.decoder.JSONDecodeError. *)
(***************************************************************************)
JsonFail == [ok |-> FALSE, val |-> <<"none">>, next |-> 0]

IsDigit(c) == c >= 48 /\ c <= 57

RECURSIVE SkipWs(_, _)
SkipWs(s, i) ==
    IF i <= Len(s) /\ s[i] = 32 THEN SkipWs(s, i + 1) ELSE i

RECURSIVE ScanDigits(_, _, _)
ScanDigits(s, i, acc) ==
    IF i <= Len(s) /\ IsDigit(s[i])
    THEN ScanDigits(s, i + 1, acc * 10 + (s[i] - 48))
    ELSE [ok |-> TRUE, val |-> <<"int", acc>>, next |-> i]

\* A number: 0, or a digit 1-9 and the digits after it.
ParseNumber(s, i) ==
    IF s[i] = 48 THEN [ok |-> TRUE, val |-> <<"int", 0>>, next |-> i + 1]
    ELSE ScanDigits(s, i, 0)

\* From the character after the opening quote to the closing quote.
RECURSIVE ScanString(_, _, _)
ScanString(s, i, acc) ==
    IF i > Len(s) \/ s[i] = 92 \/ s[i] < 32 THEN JsonFail
    ELSE IF s[i] = 34 THEN [ok |-> TRUE, val |-> <<"str", acc>>, next |-> i + 1]
    ELSE ScanString(s, i + 1, Append(acc, s[i]))

\* dict[k] = v: a key set again keeps its place and takes the new value.
DictSet(pairs, k, v) ==
    IF \E j \in 1..Len(pairs) : pairs[j][1] = k
    THEN [j \in 1..Len(pairs) |-> IF pairs[j][1] = k THEN <<k, v>> ELSE pairs[j]]
    ELSE Append(pairs, <<k, v>>)

RECURSIVE ParseValue(_, _), ParseMembers(_, _, _), ParseElements(_, _, _)
\* The value that starts at s[i] (no space before it).
ParseValue(s, i) ==
    IF i > Len(s) THEN JsonFail
    ELSE IF s[i] = 34 THEN ScanString(s, i + 1, <<>>)
    ELSE IF IsDigit(s[i]) THEN ParseNumber(s, i)
    ELSE IF s[i] = 123 THEN
        LET j == SkipWs(s, i + 1) IN
        IF j <= Len(s) /\ s[j] = 125
        THEN [ok |-> TRUE, val |-> <<"dict", <<>>>>, next |-> j + 1]
        ELSE ParseMembers(s, j, <<>>)
    ELSE IF s[i] = 91 THEN
        LET j == SkipWs(s, i + 1) IN
        IF j <= Len(s) /\ s[j] = 93
        THEN [ok |-> TRUE, val |-> <<"list", <<>>>>, next |-> j + 1]
        ELSE ParseElements(s, j, <<>>)
    ELSE JsonFail

\* "key" : value, then either , and the next member or the closing brace.
ParseMembers(s, i, acc) ==
    IF i > Len(s) \/ s[i] # 34 THEN JsonFail
    ELSE LET k == ScanString(s, i + 1, <<>>) IN
         IF ~k.ok THEN JsonFail
         ELSE LET c == SkipWs(s, k.next) IN
              IF c > Len(s) \/ s[c] # 58 THEN JsonFail
              ELSE LET v == ParseValue(s, SkipWs(s, c + 1)) IN
                   IF ~v.ok THEN JsonFail
                   ELSE LET e    == SkipWs(s, v.next)
                            more == DictSet(acc, k.val[2], v.val)
                        IN  IF e > Len(s) THEN JsonFail
                            ELSE IF s[e] = 125
                            THEN [ok |-> TRUE, val |-> <<"dict", more>>, next |-> e + 1]
                            ELSE IF s[e] = 44
                            THEN ParseMembers(s, SkipWs(s, e + 1), more)
                            ELSE JsonFail

\* value, then either , and the next element or the closing bracket.
ParseElements(s, i, acc) ==
    LET v == ParseValue(s, i) IN
    IF ~v.ok THEN JsonFail
    ELSE LET e    == SkipWs(s, v.next)
             more == Append(acc, v.val)
         IN  IF e > Len(s) THEN JsonFail
             ELSE IF s[e] = 93
             THEN [ok |-> TRUE, val |-> <<"list", more>>, next |-> e + 1]
             ELSE IF s[e] = 44
             THEN ParseElements(s, SkipWs(s, e + 1), more)
             ELSE JsonFail

\* json.loads(text): one value, spaces around it, and nothing else.
json_loads(text) ==
    LET v == ParseValue(text, SkipWs(text, 1)) IN
    IF v.ok /\ SkipWs(text, v.next) > Len(text) THEN v ELSE JsonFail

(***************************************************************************)
(* DecodingStreamReader.  A chunk is what one stream.read(n) returns:      *)
(* <<"bytes", b>> or <<"text", t>>.                                        *)
(***************************************************************************)
MaxBytes == 5

\* 'A', the two bytes of U+00E9, the three bytes of U+20AC, and a byte that is
\* never valid.
ByteAlphabet == {65, 195, 169, 226, 130, 172, 255}

TextChunks == {<<>>, <<65>>, <<233>>, <<8364, 65>>}


NoChunk == <<"none", <<>>>>

DecInit ==
    /\ fed = <<>>
    /\ decoded = <<>>
    /\ buffer = <<>>
    /\ lastChunk = NoChunk
    /\ lastRead = <<>>
    /\ readFailed = FALSE

\* read(): the chunk is bytes, and goes through the decoder.
ReadBytes ==
    \E chunk \in SeqsUpTo(ByteAlphabet, MaxBytes - Len(fed)) :
        /\ ~readFailed
        /\ chunk # <<>>
        /\ LET r == DecoderDecode(buffer, chunk) IN
            /\ fed' = fed \o chunk
            /\ lastChunk' = <<"bytes", chunk>>
            /\ readFailed' = ~r.ok
            /\ buffer' = r.buffer
            /\ lastRead' = IF r.ok THEN r.text ELSE <<>>
            /\ decoded' = IF r.ok THEN decoded \o r.text ELSE decoded
        /\ UNCHANGED <<urlVars, reqVars>>

\* read(): the chunk is text already, and is returned as it is.
ReadText ==
    \E chunk \in TextChunks :
        /\ ~readFailed
        /\ lastChunk' = <<"text", chunk>>
        /\ lastRead' = chunk
        /\ UNCHANGED <<fed, decoded, buffer, readFailed, urlVars, reqVars>>


DecNext == ReadBytes \/ ReadText

(***************************************************************************)
(* URL construction.  Here a string is a sequence of one-character         *)
(* strings, an argument a Python value (<<"str", s>>, <<"int", n>>, or     *)
(* <<"list", strings>>), and a dict (params, kwargs) the sequence of its   *)
(* <<key, value>> items in insertion order.                                *)
(***************************************************************************)
\* 'https://api.coingecko.com/api/v3/'
API_URL_BASE ==
    <<"h", "t", "t", "p", "s", ":", "/", "/", "a", "p", "i", ".", "c", "o",
      "i", "n", "g", "e", "c", "k", "o", ".", "c", "o", "m", "/", "a", "p",
      "i", "/", "v", "3", "/">>

\* 'simple/price'
P_simple_price ==
    <<"s", "i", "m", "p", "l", "e", "/", "p", "r", "i", "c", "e">>

\* 'coins'
P_coins == <<"c", "o", "i", "n", "s">>

\* 'coins/'
P_coins_ == <<"c", "o", "i", "n", "s", "/">>

\* '/history'
P_history == <<"/", "h", "i", "s", "t", "o", "r", "y">>

\* '/market_chart?vs_currency='
P_market_chart ==
    <<"/", "m", "a", "r", "k", "e", "t", "_", "c", "h", "a", "r", "t", "?",
      "v", "s", "_", "c", "u", "r", "r", "e", "n", "c", "y", "=">>

\* '/market_chart/range?vs_currency='
P_market_chart_range ==
    <<"/", "m", "a", "r", "k", "e", "t", "_", "c", "h", "a", "r", "t", "/",
      "r", "a", "n", "g", "e", "?", "v", "s", "_", "c", "u", "r", "r", "e",
      "n", "c", "y", "=">>

\* '/ohlc?vs_currency='
P_ohlc ==
    <<"/", "o", "h", "l", "c", "?", "v", "s", "_", "c", "u", "r", "r", "e",
      "n", "c", "y", "=">>

\* '/contract/'
P_contract == <<"/", "c", "o", "n", "t", "r", "a", "c", "t", "/">>

\* '/market_chart/?vs_currency='
P_contract_market_chart ==
    <<"/", "m", "a", "r", "k", "e", "t", "_", "c", "h", "a", "r", "t", "/",
      "?", "v", "s", "_", "c", "u", "r", "r", "e", "n", "c", "y", "=">>

\* '&days='
P_days == <<"&", "d", "a", "y", "s", "=">>

\* '&from='
P_from == <<"&", "f", "r", "o", "m", "=">>

\* '&to='
P_to == <<"&", "t", "o", "=">>

\* 'ids'
K_ids == <<"i", "d", "s">>

\* 'vs_currencies'
K_vs_currencies ==
    <<"v", "s", "_", "c", "u", "r", "r", "e", "n", "c", "i", "e", "s">>

\* 'date'
K_date == <<"d", "a", "t", "e">>

\* 'interval'
K_interval == <<"i", "n", "t", "e", "r", "v", "a", "l">>

\* 'page'
K_page == <<"p", "a", "g", "e">>

\* 'vs_currency'
K_vs_currency == <<"v", "s", "_", "c", "u", "r", "r", "e", "n", "c", "y">>

\* 'days'
K_days == <<"d", "a", "y", "s">>

\* 'from'
K_from == <<"f", "r", "o", "m">>

\* 'to'
K_to == <<"t", "o">>

\* 'daily'
V_daily == <<"d", "a", "i", "l", "y">>

\* 'bitcoin'
V_bitcoin == <<"b", "i", "t", "c", "o", "i", "n">>

\* 'ethereum'
V_ethereum == <<"e", "t", "h", "e", "r", "e", "u", "m">>

\* 'usd'
V_usd == <<"u", "s", "d">>

\* 'eur'
V_eur == <<"e", "u", "r">>

\* 'max'
V_max == <<"m", "a", "x">>

\* '0xabc'
V_0xabc == <<"0", "x", "a", "b", "c">>

\* '30-12-2017'
V_date == <<"3", "0", "-", "1", "2", "-", "2", "0", "1", "7">>

RECURSIVE Digits(_)
Digits(n) ==
    LET d == <<"0", "1", "2", "3", "4", "5", "6", "7", "8", "9">>[(n % 10) + 1]
    IN  IF n < 10 THEN <<d>> ELSE Append(Digits(n \div 10), d)

\* str(value), which str.format applies to "{0}".
PyStr(v) == IF v[1] = "int" THEN Digits(v[2]) ELSE v[2]

\* sep.join(strings)
RECURSIVE Join(_, _)
Join(strings, sep) ==
    IF strings = <<>> THEN <<>>
    ELSE IF Len(strings) = 1 THEN strings[1]
    ELSE strings[1] \o sep \o Join(Tail(strings), sep)

\* s.replace(' ', '')
RECURSIVE RemoveSpaces(_)
RemoveSpaces(s) ==
    IF s = <<>> THEN <<>>
    ELSE IF Head(s) = " " THEN RemoveSpaces(Tail(s))
    ELSE <<Head(s)>> \o RemoveSpaces(Tail(s))

\* The decorator list_args_to_comma_separated, on one argument: a list becomes
\* the comma-separated string of its items, anything else is left alone.
CommaSeparated(v) == IF v[1] = "list" THEN <<"str", Join(v[2], <<",">>)>> ELSE v

CommaSeparatedItems(kwargs) ==
    [j \in 1..Len(kwargs) |-> <<kwargs[j][1], CommaSeparated(kwargs[j][2])>>]

\* for key, value in params.items(): api_url += "{0}={1}&".format(key, value)
RECURSIVE AppendItems(_, _)
AppendItems(api_url, items) ==
    IF items = <<>> THEN api_url
    ELSE AppendItems(api_url \o items[1][1] \o <<"=">> \o PyStr(items[1][2]) \o <<"&">>,
                     Tail(items))

\* __api_url_params without api_url = api_url[:-1].
api_url_params_NoStrip(api_url, params) ==
    IF params # <<>> THEN AppendItems(api_url \o <<"?">>, params) ELSE api_url

api_url_params(api_url, params) ==
    IF params # <<>>
    THEN LET u == AppendItems(api_url \o <<"?">>, params)
         IN  SubSeq(u, 1, Len(u) - 1)
    ELSE api_url

S(chars) == <<"str", chars>>

UrlInit ==
    /\ endpoint = "none"
    /\ args = <<>>
    /\ extra = <<>>
    /\ built = <<<<>>, <<>>>>
    /\ url = <<>>

(***************************************************************************)
(* The endpoint methods, up to the call of __api_url_params: each gives    *)
(* <<api_url, params>>.  The decorator has been applied to the arguments.  *)
(***************************************************************************)
get_price(ids, vs_currencies, kwargs) ==
    LET kw1 == DictSet(kwargs, K_ids, S(RemoveSpaces(ids[2])))
        kw2 == DictSet(kw1, K_vs_currencies, S(RemoveSpaces(vs_currencies[2])))
    IN  <<API_URL_BASE \o P_simple_price, kw2>>

get_coins(kwargs) == <<API_URL_BASE \o P_coins, kwargs>>

get_coin_history_by_id(id, date, kwargs) ==
    <<API_URL_BASE \o P_coins_ \o PyStr(id) \o P_history, DictSet(kwargs, K_date, date)>>

get_coin_market_chart_by_id(id, vs_currency, days, kwargs) ==
    <<API_URL_BASE \o P_coins_ \o PyStr(id) \o P_market_chart \o PyStr(vs_currency)
          \o P_days \o PyStr(days),
      kwargs>>

get_coin_market_chart_range_by_id(id, vs_currency, from_timestamp, to_timestamp, kwargs) ==
    <<API_URL_BASE \o P_coins_ \o PyStr(id) \o P_market_chart_range
          \o PyStr(vs_currency) \o P_from \o PyStr(from_timestamp)
          \o P_to \o PyStr(to_timestamp),
      kwargs>>

get_coin_ohlc_by_id(id, vs_currency, days, kwargs) ==
    <<API_URL_BASE \o P_coins_ \o PyStr(id) \o P_ohlc \o PyStr(vs_currency)
          \o P_days \o PyStr(days),
      kwargs>>

get_coin_market_chart_from_contract_address_by_id(id, contract_address, vs_currency, days, kwargs) ==
    <<API_URL_BASE \o P_coins_ \o PyStr(id) \o P_contract \o PyStr(contract_address)
          \o P_contract_market_chart \o PyStr(vs_currency) \o P_days \o PyStr(days),
      kwargs>>

get_coin_market_chart_range_from_contract_address_by_id(id, contract_address, vs_currency, from_timestamp, to_timestamp, kwargs) ==
    <<API_URL_BASE \o P_coins_ \o PyStr(id) \o P_contract \o PyStr(contract_address)
          \o P_market_chart_range \o PyStr(vs_currency)
          \o P_from \o PyStr(from_timestamp) \o P_to \o PyStr(to_timestamp),
      kwargs>>

(***************************************************************************)
(* What callers pass.                                                      *)
(***************************************************************************)
KwargsSet ==
    { <<>>,
      << <<K_interval, S(V_daily)>> >>,
      << <<K_page, <<"int", 12>>>> >>,
      << <<K_interval, S(V_daily)>>, <<K_page, <<"int", 12>>>> >>,
      << <<K_page, <<"int", 12>>>>, <<K_interval, <<"list", <<V_daily, V_daily>>>>>> >> }

IdsSet ==
    { S(V_bitcoin), S(V_bitcoin \o <<",", " ">> \o V_ethereum),
      S(<<" ">> \o V_bitcoin \o <<" ", ",">> \o V_ethereum \o <<" ">>),
      <<"list", <<V_bitcoin, V_ethereum>>>> }

CurrenciesSet ==
    { S(V_usd), S(V_usd \o <<",", " ">> \o V_eur), <<"list", <<V_usd, V_eur>>>> }

CoinIds == {S(V_bitcoin), S(V_ethereum)}
Currencies == {S(V_usd), S(V_eur)}
DaysSet == {<<"int", 1>>, <<"int", 30>>, S(V_max)}
Timestamps == {<<"int", 0>>, <<"int", 1392577232>>}
Contracts == {S(V_0xabc)}

\* The last two lines of an endpoint method, b being its <<api_url, params>>:
\* api_url = self.__api_url_params(api_url, params); self.__request(api_url)
HandOver(b) ==
    /\ built' = b
    /\ url' = api_url_params(b[1], b[2])
    /\ UNCHANGED <<decVars, reqVars>>

\* The decorated method is called: the decorator converts the arguments, the
\* method builds the URL.
CallGetPrice ==
    \E ids \in IdsSet, vs \in CurrenciesSet, kw \in KwargsSet :
        /\ endpoint' = "get_price"
        /\ args' = <<ids, vs>>
        /\ extra' = kw
        /\ HandOver(get_price(CommaSeparated(ids), CommaSeparated(vs),
                              CommaSeparatedItems(kw)))

CallGetCoins ==
    \E kw \in KwargsSet :
        /\ endpoint' = "get_coins"
        /\ args' = <<>>
        /\ extra' = kw
        /\ HandOver(get_coins(CommaSeparatedItems(kw)))

CallGetCoinHistoryById ==
    \E id \in CoinIds, kw \in KwargsSet :
        /\ endpoint' = "get_coin_history_by_id"
        /\ args' = <<id, S(V_date)>>
        /\ extra' = kw
        /\ HandOver(get_coin_history_by_id(id, S(V_date), CommaSeparatedItems(kw)))

CallGetCoinMarketChartById ==
    \E id \in CoinIds, vs \in Currencies, days \in DaysSet, kw \in KwargsSet :
        /\ endpoint' = "get_coin_market_chart_by_id"
        /\ args' = <<id, vs, days>>
        /\ extra' = kw
        /\ HandOver(get_coin_market_chart_by_id(id, vs, days, CommaSeparatedItems(kw)))

CallGetCoinMarketChartRangeById ==
    \E id \in CoinIds, vs \in Currencies, f \in Timestamps, t \in Timestamps,
       kw \in KwargsSet :
        /\ endpoint' = "get_coin_market_chart_range_by_id"
        /\ args' = <<id, vs, f, t>>
        /\ extra' = kw
        /\ HandOver(get_coin_market_chart_range_by_id(id, vs, f, t,
                                                      CommaSeparatedItems(kw)))

CallGetCoinOhlcById ==
    \E id \in CoinIds, vs \in Currencies, days \in DaysSet, kw \in KwargsSet :
        /\ endpoint' = "get_coin_ohlc_by_id"
        /\ args' = <<id, vs, days>>
        /\ extra' = kw
        /\ HandOver(get_coin_ohlc_by_id(id, vs, days, CommaSeparatedItems(kw)))

CallGetCoinMarketChartFromContract ==
    \E id \in CoinIds, c \in Contracts, vs \in Currencies, days \in DaysSet,
       kw \in KwargsSet :
        /\ endpoint' = "get_coin_market_chart_from_contract_address_by_id"
        /\ args' = <<id, c, vs, days>>
        /\ extra' = kw
        /\ HandOver(get_coin_market_chart_from_contract_address_by_id(
                        id, c, vs, days, CommaSeparatedItems(kw)))

CallGetCoinMarketChartRangeFromContract ==
    \E id \in CoinIds, c \in Contracts, vs \in Currencies, f \in Timestamps,
       t \in Timestamps, kw \in KwargsSet :
        /\ endpoint' = "get_coin_market_chart_range_from_contract_address_by_id"
        /\ args' = <<id, c, vs, f, t>>
        /\ extra' = kw
        /\ HandOver(get_coin_market_chart_range_from_contract_address_by_id(
                        id, c, vs, f, t, CommaSeparatedItems(kw)))

UrlNext ==
    \/ CallGetPrice
    \/ CallGetCoins
    \/ CallGetCoinHistoryById
    \/ CallGetCoinMarketChartById
    \/ CallGetCoinMarketChartRangeById
    \/ CallGetCoinOhlcById
    \/ CallGetCoinMarketChartFromContract
    \/ CallGetCoinMarketChartRangeFromContract

(***************************************************************************)
(* The request executor, CoinGeckoAPI.__request, and the endpoint methods  *)
(* around it.  A call runs from one await to the next in one step; the     *)
(* steps of different calls interleave.                                    *)
(***************************************************************************)
NumCalls == 2

Calls == 1..NumCalls

\* ExponentialRetry(attempts=5, statuses=[502, 503, 504])
retry_attempts == 5

RetryStatuses == {502, 503, 504}

\* The endpoint methods: one that returns what __request returns, and the two
\* that subscript it with 'data'.
PlainEndpoints == {"get_price"}
DataEndpoints == {"get_global", "get_global_decentralized_finance_defi"}

\* Response bodies: {"data": {"a": 1}}, {"error": "not found"}, [1, 2], oops,
\* a byte that is not UTF-8, and nothing.
B_data == <<123, 34, 100, 97, 116, 97, 34, 58, 32, 123, 34, 97, 34, 58, 32, 49, 125, 125>>
B_error == <<123, 34, 101, 114, 114, 111, 114, 34, 58, 32, 34, 110, 111, 116, 32, 102, 111, 117, 110, 100, 34, 125>>
B_list == <<91, 49, 44, 32, 50, 93>>
B_oops == <<111, 111, 112, 115>>
B_notutf8 == <<255>>
B_empty == <<>>

AllStatuses == {200, 404, 500, 502, 503, 504}
AllBodies == {B_data, B_error, B_list, B_oops, B_notutf8, B_empty}


Unbound == [status |-> 0, body |-> <<>>, consumed |-> FALSE]

None == <<"none">>

NoResult == [kind |-> "none", exc |-> "", value |-> None]

Return(v) == [kind |-> "return", exc |-> "", value |-> v]

\* raise exc(value)
Raise(e, v) == [kind |-> "raise", exc |-> e, value |-> v]

ReqInitWith(cs, srv) ==
    /\ clients = cs
    /\ server = srv
    /\ pc = [c \in Calls |-> "idle"]
    /\ method = [c \in Calls |-> "none"]
    /\ session = [c \in Calls |-> "none"]
    /\ attempt = [c \in Calls |-> 0]
    /\ inflight = [c \in Calls |-> 0]
    /\ sent = [c \in Calls |-> 0]
    /\ log = [c \in Calls |-> <<>>]
    /\ response = [c \in Calls |-> Unbound]
    /\ caught = [c \in Calls |-> Raise("", None)]
    /\ fault = [c \in Calls |-> "none"]
    /\ result = [c \in Calls |-> NoResult]

\* One call, against a server that may answer anything or against one that
\* answers every request with 200 and {"data": {"a": 1}}.
AnyServer == [statuses |-> AllStatuses, bodies |-> AllBodies]

HealthyServer == [statuses |-> {200}, bodies |-> {B_data}]

ReqInit == \E srv \in {AnyServer, HealthyServer} : ReqInitWith({1}, srv)

\* Concurrent calls on one client.
ConcInit ==
    ReqInitWith(Calls, [statuses |-> {200, 503}, bodies |-> {B_error, B_oops}])

\* `async with RetryClient(...) as session` left without closing the session.
ExitLeak(c, res) ==
    /\ pc' = [pc EXCEPT ![c] = "done"]
    /\ result' = [result EXCEPT ![c] = res]
    /\ inflight' = [inflight EXCEPT ![c] = 0]
    /\ UNCHANGED session

\* Leaving the `async with` block, by return or by an exception: the session is
\* closed and the call ends with res.
Exit(c, res) ==
    /\ pc' = [pc EXCEPT ![c] = "done"]
    /\ result' = [result EXCEPT ![c] = res]
    /\ inflight' = [inflight EXCEPT ![c] = 0]
    /\ session' = [session EXCEPT ![c] = "closed"]

\* DecodingStreamReader(stream=response.content).read(): the bytes left in the
\* stream, through a new decoder.
StreamData(r) == IF r.consumed THEN <<>> ELSE r.body

ReadAll(r) == DecoderDecode(<<>>, StreamData(r))

\* The RetryClient tries again when the status is one of retry_options.statuses
\* and attempts are left; n is the number of the attempt just answered.
\* The statuses of retry_options ignored: any answer is retried.
ShouldRetry_AnyStatus(status, n) == n < retry_attempts

ShouldRetry(status, n) == status \in RetryStatuses /\ n < retry_attempts

\* response.raise_for_status() raises ClientResponseError for these.
RaisesForStatus(status) == status >= 400

\* An endpoint method that awaits self.__request(api_url): the session is opened
\* and the first GET is sent.
CallPlain(c) ==
    \E m \in PlainEndpoints :
        /\ c \in clients
        /\ pc[c] = "idle"
        /\ method' = [method EXCEPT ![c] = m]
        /\ session' = [session EXCEPT ![c] = "open"]
        /\ attempt' = [attempt EXCEPT ![c] = 1]
        /\ inflight' = [inflight EXCEPT ![c] = @ + 1]
        /\ sent' = [sent EXCEPT ![c] = @ + 1]
        /\ pc' = [pc EXCEPT ![c] = "get"]
        /\ UNCHANGED <<decVars, urlVars, clients, server, log, response, caught, fault, result>>

\* get_global and get_global_decentralized_finance_defi evaluate
\* `await self.__request(api_url)['data']`: the subscript applies to the coroutine
\* object, before anything is awaited, and raises TypeError.  __request never runs.
CallData(c) ==
    \E m \in DataEndpoints :
        /\ c \in clients
        /\ pc[c] = "idle"
        /\ method' = [method EXCEPT ![c] = m]
        /\ pc' = [pc EXCEPT ![c] = "done"]
        /\ result' = [result EXCEPT ![c] = Raise("TypeError", None)]
        /\ UNCHANGED <<decVars, urlVars, clients, server, session, attempt, inflight, sent, log,
                       response, caught, fault>>

\* session.get: the answer has a retryable status and attempts are left; the
\* RetryClient drops it and sleeps.
GetRetry(c) ==
    \E st \in server.statuses :
        /\ pc[c] = "get"
        /\ ShouldRetry(st, attempt[c])
        /\ inflight' = [inflight EXCEPT ![c] = @ - 1]
        /\ log' = [log EXCEPT ![c] = Append(@, st)]
        /\ pc' = [pc EXCEPT ![c] = "sleep"]
        /\ UNCHANGED <<decVars, urlVars, clients, server, method, session, attempt, sent, response,
                       caught, fault, result>>

\* asyncio.sleep is over: the next attempt is sent.
GetAgain(c) ==
    /\ pc[c] = "sleep"
    /\ attempt' = [attempt EXCEPT ![c] = @ + 1]
    /\ inflight' = [inflight EXCEPT ![c] = @ + 1]
    /\ sent' = [sent EXCEPT ![c] = @ + 1]
    /\ pc' = [pc EXCEPT ![c] = "get"]
    /\ UNCHANGED <<decVars, urlVars, clients, server, method, session, log, response, caught,
                   fault, result>>

\* session.get returns the response; raise_for_status() either passes, and the
\* body is read (line 41), or raises, and the handler reads the body (line 46).
GetResponse(c) ==
    \E st \in server.statuses, body \in server.bodies :
        /\ pc[c] = "get"
        /\ ~ShouldRetry(st, attempt[c])
        /\ inflight' = [inflight EXCEPT ![c] = @ - 1]
        /\ log' = [log EXCEPT ![c] = Append(@, st)]
        /\ response' = [response EXCEPT
                           ![c] = [status |-> st, body |-> body, consumed |-> FALSE]]
        /\ IF RaisesForStatus(st)
           THEN /\ caught' = [caught EXCEPT
                                 ![c] = Raise("ClientResponseError", <<"int", st>>)]
                /\ pc' = [pc EXCEPT ![c] = "read46"]
           ELSE /\ pc' = [pc EXCEPT ![c] = "read41"]
                /\ UNCHANGED caught
        /\ UNCHANGED <<decVars, urlVars, clients, server, method, session, attempt,
                       sent, fault, result>>

\* session.get raises: no connection, or the timeout.  `response` was never
\* assigned, so the handler's response.content raises UnboundLocalError, which
\* `except json.decoder.JSONDecodeError` does not catch.
GetFails(c) ==
    \E e \in {"ClientConnectionError", "TimeoutError"} :
        /\ pc[c] = "get"
        /\ fault' = [fault EXCEPT ![c] = "network"]
        /\ caught' = [caught EXCEPT ![c] = Raise(e, None)]
        /\ Exit(c, Raise("UnboundLocalError", None))
        /\ UNCHANGED <<decVars, urlVars, clients, server, method, attempt, sent, log, response>>

\* Line 41 and 42: the body is read, decoded and parsed, and returned; a failure
\* of either goes to the handler, which reads the stream again (line 46).
ReadBody(c) ==
    /\ pc[c] = "read41"
    /\ response' = [response EXCEPT ![c].consumed = TRUE]
    /\ LET d == ReadAll(response[c])
           j == json_loads(d.text)
       IN  IF d.ok /\ j.ok
           THEN /\ Exit(c, Return(j.val))
                /\ UNCHANGED caught
           ELSE /\ caught' = [caught EXCEPT
                                 ![c] = Raise(IF d.ok THEN "JSONDecodeError"
                                                      ELSE "UnicodeDecodeError", None)]
                /\ pc' = [pc EXCEPT ![c] = "read46"]
                /\ UNCHANGED <<inflight, session, result>>
    /\ UNCHANGED <<decVars, urlVars, clients, server, method, attempt, sent, log, fault>>

\* Lines 46 to 51, with every JSON document taken for an error document or none.
HandlerOutcome_AlwaysOriginal(c, d, j) == caught[c]

\* Lines 46 to 51: what the handler raises, d being the decoding of the body and
\* j its parse.  A body that does not decode raises UnicodeDecodeError from
\* line 46; one that parses raises ValueError(content); JSONDecodeError is
\* swallowed and the exception being handled is raised again.
HandlerOutcome(c, d, j) ==
    IF ~d.ok THEN Raise("UnicodeDecodeError", None)
    ELSE IF j.ok THEN Raise("ValueError", j.val)
    ELSE caught[c]

ReadErrorBody(c) ==
    /\ pc[c] = "read46"
    /\ response' = [response EXCEPT ![c].consumed = TRUE]
    /\ LET d == ReadAll(response[c])
       IN  Exit(c, HandlerOutcome(c, d, json_loads(d.text)))
    /\ UNCHANGED <<decVars, urlVars, clients, server, method, attempt, sent, log, caught, fault>>

\* The task of the call is cancelled while it waits: CancelledError is raised at
\* the await, is no Exception, and leaves the `async with` block.
Cancel(c) ==
    /\ pc[c] \in {"get", "sleep", "read41", "read46"}
    /\ fault' = [fault EXCEPT ![c] = "cancel"]
    /\ Exit(c, Raise("CancelledError", None))
    /\ UNCHANGED <<decVars, urlVars, clients, server, method, attempt, sent, log, response, caught>>

ReqNext ==
    \E c \in Calls :
        \/ CallPlain(c)
        \/ CallData(c)
        \/ GetRetry(c)
        \/ GetAgain(c)
        \/ GetResponse(c)
        \/ GetFails(c)
        \/ ReadBody(c)
        \/ ReadErrorBody(c)
        \/ Cancel(c)

(***************************************************************************)
(* The specifications: the decoder, the URL construction, one call, and    *)
(* concurrent calls.                                                       *)
(***************************************************************************)
Init == DecInit /\ UrlInit /\ ReqInit

InitConc == DecInit /\ UrlInit /\ ConcInit

\* No call of the request executor is made.
InitIdle == DecInit /\ UrlInit /\ ReqInitWith({}, AnyServer)

SpecDec == InitIdle /\ [][DecNext]_vars

SpecUrl == InitIdle /\ [][UrlNext]_vars

Spec == Init /\ [][ReqNext]_vars

SpecConc == InitConc /\ [][ReqNext]_vars
(***************************************************************************)
(* The claims.                                                             *)
(***************************************************************************)
\* The retryable set, as the claims name it.
Retryable == {502, 503, 504}

\* Error statuses outside it.
OtherErrors == {st \in AllStatuses : st >= 400 /\ st \notin Retryable}

AllIn(seq, T) == \A i \in 1..Len(seq) : seq[i] \in T

\* The body is a JSON document / the value it stands for.
IsJson(body) ==
    LET d == utf_8_decode(body, TRUE) IN d.ok /\ json_loads(d.text).ok

Parsed(body) == json_loads(utf_8_decode(body, TRUE).text).val

\* The call went through the request executor and has ended.
Ran(c) == pc[c] = "done" /\ method[c] \in PlainEndpoints

\* {"error": "not found"} and {"a": 1} as Python values.
ErrorDocument == <<"dict", << <<<<101, 114, 114, 111, 114>>, <<"str", <<110, 111, 116, 32, 102, 111, 117, 110, 100>>>>>> >>>>

DataValue == <<"dict", << <<<<97>>, <<"int", 1>>>> >>>>

(***************************************************************************)
(* C1.  When every attempt of a call was answered with a status in         *)
(* {502, 503, 504}, and the call was neither cancelled nor cut off by the  *)
(* network, it made exactly retry_attempts attempts and failed with the    *)
(* HTTP error, or with the API error (ValueError with the parsed body)     *)
(* when the last body is JSON; it did not return.                          *)
(***************************************************************************)
C1_RetryBound ==
    \A c \in Calls :
        (Ran(c) /\ fault[c] = "none" /\ AllIn(log[c], Retryable)) =>
            /\ sent[c] = retry_attempts
            /\ Len(log[c]) = retry_attempts
            /\ result[c] =
                   IF IsJson(response[c].body)
                   THEN Raise("ValueError", Parsed(response[c].body))
                   ELSE Raise("ClientResponseError", <<"int", response[c].status>>)

(***************************************************************************)
(* C2.  When the first k answers (k < retry_attempts) had a retryable      *)
(* status and answer k+1 is a 200, exactly k+1 attempts are made, and the  *)
(* call, unless cancelled, returns the parsed body of that answer when it  *)
(* is JSON.  Attempts are sequential: at most one request of a call is in  *)
(* flight, none during the backoff, and a request is sent only when all    *)
(* earlier ones have been answered.                                        *)
(***************************************************************************)
C2_RetryThenSuccess ==
    \A c \in Calls :
        /\ inflight[c] <= 1
        /\ sent[c] <= Len(log[c]) + 1
        /\ pc[c] = "sleep" => inflight[c] = 0 /\ sent[c] = Len(log[c])
        /\ \A k \in 0..(retry_attempts - 1) :
               ( /\ Len(log[c]) > k
                 /\ AllIn(SubSeq(log[c], 1, k), Retryable)
                 /\ log[c][k + 1] = 200 ) =>
                   /\ Len(log[c]) = k + 1
                   /\ sent[c] = k + 1
                   /\ response[c].status = 200
                   /\ (pc[c] = "done" /\ fault[c] = "none" /\ IsJson(response[c].body))
                          => result[c] = Return(Parsed(response[c].body))

\* 503, 503, then 200 with {"error": "not found"}: three attempts, and the
\* document is returned.
C2_Witness ==
    /\ pc[1] = "done"
    /\ log[1] = <<503, 503, 200>>
    /\ sent[1] = 3
    /\ response[1].body = B_error
    /\ result[1] = Return(ErrorDocument)

(***************************************************************************)
(* C3.  When the server answers with an error status outside the           *)
(* retryable set and a JSON body, exactly one attempt is made and the      *)
(* call, unless cancelled, fails with ValueError carrying the parsed body, *)
(* not with the HTTP error.                                                *)
(***************************************************************************)
C3_ApiErrorNoRetry ==
    \A c \in Calls :
        (log[c] # <<>> /\ AllIn(log[c], OtherErrors)) =>
            /\ sent[c] = 1
            /\ Len(log[c]) = 1
            /\ (Ran(c) /\ fault[c] = "none" /\ IsJson(response[c].body))
                   => result[c] = Raise("ValueError", Parsed(response[c].body))

C3_Witness ==
    /\ pc[1] = "done"
    /\ log[1] = <<404>>
    /\ sent[1] = 1
    /\ response[1].body = B_error
    /\ result[1] = Raise("ValueError", ErrorDocument)

(***************************************************************************)
(* C4.  When the answer handed to the executor has an error status and a   *)
(* body that is not JSON, the call, unless cancelled, fails with the HTTP  *)
(* error itself (ClientResponseError of that status).                      *)
(***************************************************************************)
C4_TransportErrorSurfaces ==
    \A c \in Calls :
        ( /\ Ran(c)
          /\ fault[c] = "none"
          /\ response[c].status >= 400
          /\ ~IsJson(response[c].body) ) =>
            result[c] = Raise("ClientResponseError", <<"int", response[c].status>>)

(***************************************************************************)
(* C5.  When the first GET fails in the network (no connection, timeout),  *)
(* so that no answer was ever received, one attempt was made and the call  *)
(* fails with that connection or timeout error.                            *)
(***************************************************************************)
C5_NetworkErrorSurfaces ==
    \A c \in Calls :
        (pc[c] = "done" /\ fault[c] = "network" /\ log[c] = <<>>) =>
            /\ sent[c] = 1
            /\ result[c] = caught[c]
            /\ result[c].exc \in {"ClientConnectionError", "TimeoutError"}

(***************************************************************************)
(* C6.  The session of a call is open while the call is inside the         *)
(* executor and is closed however the call ends: no call that has ended    *)
(* has an open session, and once all calls have ended no session is open.  *)
(***************************************************************************)
C6_SessionClosed ==
    /\ \A c \in Calls :
           /\ pc[c] \in {"get", "sleep", "read41", "read46"} => session[c] = "open"
           /\ pc[c] = "done" => session[c] # "open"
           /\ Ran(c) => session[c] = "closed"
    /\ (\A c \in clients : pc[c] = "done") => \A c \in Calls : session[c] # "open"

\* Two concurrent calls, one cancelled and one that returned: both sessions
\* are closed.
C6_Witness ==
    /\ pc[1] = "done" /\ pc[2] = "done"
    /\ result[1].exc = "CancelledError"
    /\ result[2].kind = "return"
    /\ session[1] = "closed" /\ session[2] = "closed"

(***************************************************************************)
(* C7.  get_global and get_global_decentralized_finance_defi, against a    *)
(* server that answers every request with 200 and {"data": {"a": 1}},      *)
(* return {"a": 1}.                                                        *)
(***************************************************************************)
C7_DataUnwrapped ==
    \A c \in Calls :
        ( /\ pc[c] = "done"
          /\ method[c] \in DataEndpoints
          /\ server = HealthyServer
          /\ fault[c] = "none" ) =>
            result[c] = Return(DataValue)

Item(kv) == kv[1] \o <<"=">> \o PyStr(kv[2])

Items(params) == [j \in 1..Len(params) |-> Item(params[j])]

WithQuery(api_url, params) ==
    IF params = <<>> THEN api_url
    ELSE api_url \o <<"?">> \o Join(Items(params), <<"&">>)

NoSpaces(s) == SelectSeq(s, LAMBDA ch : ch # " ")

AllStrings(vs) == \A j \in 1..Len(vs) : vs[j][1] \in {"str", "int"}

\* 'https://api.coingecko.com/api/v3/simple/price?ids=bitcoin,ethereum&vs_currencies=usd'
PriceExampleUrl ==
    <<"h", "t", "t", "p", "s", ":", "/", "/", "a", "p", "i", ".", "c", "o",
      "i", "n", "g", "e", "c", "k", "o", ".", "c", "o", "m", "/", "a", "p",
      "i", "/", "v", "3", "/", "s", "i", "m", "p", "l", "e", "/", "p", "r",
      "i", "c", "e", "?", "i", "d", "s", "=", "b", "i", "t", "c", "o", "i",
      "n", ",", "e", "t", "h", "e", "r", "e", "u", "m", "&", "v", "s", "_",
      "c", "u", "r", "r", "e", "n", "c", "i", "e", "s", "=", "u", "s", "d">>

PriceExampleArgs == <<S(V_bitcoin \o <<",", " ">> \o V_ethereum), S(V_usd)>>

(***************************************************************************)
(* C8.  The URL handed to the request executor is the URL given to         *)
(* __api_url_params when params is empty, and otherwise that URL, '?', and *)
(* the key=value items in order with '&' between them; get_price with      *)
(* strings builds base + 'simple/price?' + the extra items, ids and        *)
(* vs_currencies, the two without their spaces; and                        *)
(* get_price("bitcoin, ethereum", "usd") builds                            *)
(* base + 'simple/price?ids=bitcoin,ethereum&vs_currencies=usd'.           *)
(***************************************************************************)
C8_QueryConstruction ==
    endpoint # "none" =>
        /\ url = WithQuery(built[1], built[2])
        /\ ( /\ endpoint = "get_price"
             /\ AllStrings(args)
             /\ AllStrings([j \in 1..Len(extra) |-> extra[j][2]]) ) =>
               url = WithQuery(API_URL_BASE \o P_simple_price,
                               extra \o << <<K_ids, S(NoSpaces(args[1][2]))>>,
                                           <<K_vs_currencies, S(NoSpaces(args[2][2]))>> >>)
        /\ (endpoint = "get_price" /\ args = PriceExampleArgs /\ extra = <<>>)
               => url = PriceExampleUrl

C8_Witness ==
    /\ endpoint = "get_price"
    /\ args = PriceExampleArgs
    /\ extra = <<>>
    /\ url = PriceExampleUrl

FedBeforeLast ==
    IF lastChunk[1] = "bytes"
    THEN SubSeq(fed, 1, Len(fed) - Len(lastChunk[2]))
    ELSE fed

(***************************************************************************)
(* C9.  Decoder chunk independence.  However the bytes delivered so far    *)
(* were split into reads, as long as they are the beginning of a valid     *)
(* UTF-8 sequence no read has failed, the reads together have returned     *)
(* exactly the characters completed so far (so the whole text once the     *)
(* sequence is complete), the bytes of an incomplete character wait in the *)
(* decoder, the last read returned exactly the characters its chunk        *)
(* completed, and a chunk that is text already is returned unchanged.      *)
(***************************************************************************)
C9_ChunkIndependence ==
    LET sofar  == utf_8_decode(fed, FALSE)
        whole  == utf_8_decode(fed, TRUE)
        before == utf_8_decode(FedBeforeLast, FALSE)
    IN  /\ sofar.ok =>
            /\ ~readFailed
            /\ decoded = sofar.text
            /\ buffer = Drop(fed, sofar.consumed)
            /\ lastChunk[1] = "bytes" =>
                   lastRead = Drop(sofar.text, Len(before.text))
        /\ whole.ok => decoded = whole.text /\ buffer = <<>>
        /\ lastChunk[1] = "text" => lastRead = lastChunk[2]

\* U+20AC arrived in two reads, split inside the character: the first read
\* returned nothing, the second the character.
C9_Witness ==
    /\ fed = <<65, 226, 130, 172>>
    /\ lastChunk = <<"bytes", <<130, 172>>>>
    /\ lastRead = <<8364>>
    /\ decoded = <<65, 8364>>
    /\ ~readFailed

Count(s, ch) == Cardinality({j \in 1..Len(s) : s[j] = ch})

FirstIndex(s, ch) ==
    IF \E j \in 1..Len(s) : s[j] = ch
    THEN CHOOSE j \in 1..Len(s) : s[j] = ch /\ \A i \in 1..(j - 1) : s[i] # ch
    ELSE Len(s) + 1

RECURSIVE Split(_, _)
Split(s, ch) ==
    LET j == FirstIndex(s, ch)
    IN  IF j > Len(s) THEN <<s>>
        ELSE <<SubSeq(s, 1, j - 1)>> \o Split(Drop(s, j), ch)

\* The key=value items of the URL's query.
QueryItems(u) ==
    LET q == FirstIndex(u, "?")
    IN  IF q > Len(u) THEN {}
        ELSE LET parts == Split(Drop(u, q), "&") IN {parts[j] : j \in 1..Len(parts)}

\* The query parameters the endpoint's template carries.
TemplateParams ==
    CASE endpoint \in {"get_coin_market_chart_by_id", "get_coin_ohlc_by_id"} ->
             << <<K_vs_currency, args[2]>>, <<K_days, args[3]>> >>
      [] endpoint = "get_coin_market_chart_range_by_id" ->
             << <<K_vs_currency, args[2]>>, <<K_from, args[3]>>, <<K_to, args[4]>> >>
      [] endpoint = "get_coin_market_chart_from_contract_address_by_id" ->
             << <<K_vs_currency, args[3]>>, <<K_days, args[4]>> >>
      [] endpoint = "get_coin_market_chart_range_from_contract_address_by_id" ->
             << <<K_vs_currency, args[3]>>, <<K_from, args[4]>>, <<K_to, args[5]>> >>
      [] OTHER -> <<>>

(***************************************************************************)
(* C10.  The URL handed to the request executor has at most one '?', and   *)
(* every query parameter, of the endpoint's template and of the caller,    *)
(* is one of the key=value items that '&' separates after the '?'.         *)
(***************************************************************************)
C10_OneQueryString ==
    endpoint # "none" =>
        /\ Count(url, "?") <= 1
        /\ \A j \in 1..Len(TemplateParams) : Item(TemplateParams[j]) \in QueryItems(url)
        /\ \A j \in 1..Len(extra) :
               Item(<<extra[j][1], CommaSeparated(extra[j][2])>>) \in QueryItems(url)

=============================================================================
